---------------------------- MODULE Spec2Model ----------------------------
(***************************************************************************)
(* Model of src/src/methods.py: maximum-likelihood estimation of a Normal  *)
(* distribution by Newton's method, bisection and golden-section search.   *)
(*                                                                         *)
(* Arithmetic.  The program computes in floating point; the model computes *)
(* the same expressions exactly, in the field Q(sqrt 5), which holds every *)
(* value the three optimizers form from integer samples, integer brackets  *)
(* and rational tolerances (the golden ratio gr = (sqrt(5) - 1) / 2 is the *)
(* only irrational the code introduces outside the logarithm).  A number   *)
(* is a record [p, q, d] standing for (p + q * gr) / d, kept normalised    *)
(* (d > 0, gcd(p, q, d) = 1) so that equal numbers are equal records.      *)
(* Rounding error is therefore not modelled.                               *)
(*                                                                         *)
(* sigma = np.std(data) occurs in the code only as sigma**2, so the model  *)
(* carries sigma2, the population variance.  The term -n/2 * ln(2*pi*      *)
(* sigma**2) of the log-likelihood is transcendental: it is carried as the *)
(* unevaluated pair <<n, sigma2>> next to the exactly computed quadratic   *)
(* term.  golden_section_mle is modelled for param = 'mu', where that term *)
(* is the same in every objective value and their order is decided by the  *)
(* quadratic term; param = 'sigma' would need to order logarithms and is   *)
(* outside the model.  Samples have nonzero variance and max_iter >= 1.    *)
(***************************************************************************)
EXTENDS Integers, Sequences, FiniteSets, TLC

\* ------------------------------------------------------------------------
\* Exact arithmetic in Q(sqrt 5)
\* ------------------------------------------------------------------------

AbsInt(x) == IF x < 0 THEN -x ELSE x

RECURSIVE Gcd(_, _)
Gcd(x, y) == IF y = 0 THEN AbsInt(x) ELSE Gcd(y, x % AbsInt(y))

\* (p + q * gr) / d, normalised
Num(p, q, d) ==
    LET s  == IF d < 0 THEN -1 ELSE 1
        g  == Gcd(Gcd(p, q), d)
    IN  [p |-> (s * p) \div g, q |-> (s * q) \div g, d |-> (s * d) \div g]

Rat(n, d) == Num(n, 0, d)
FromInt(n)    == Num(n, 0, 1)
Zero      == FromInt(0)
One       == FromInt(1)
Two       == FromInt(2)

Add(x, y) == Num(x.p * y.d + y.p * x.d, x.q * y.d + y.q * x.d, x.d * y.d)
Neg(x)    == [p |-> -x.p, q |-> -x.q, d |-> x.d]
Sub(x, y) == Add(x, Neg(y))
\* gr * gr = 1 - gr
Mul(x, y) == Num(x.p * y.p + x.q * y.q,
                 x.p * y.q + x.q * y.p - x.q * y.q,
                 x.d * y.d)
\* 1 / (p + q*gr) = (p - q - q*gr) / (p*p - p*q - q*q); y is never zero here
Inv(y)    == Num(y.d * (y.p - y.q), y.d * (-y.q), y.p * y.p - y.p * y.q - y.q * y.q)
Div(x, y) == Mul(x, Inv(y))

\* sign of P - Q * sqrt(5) for integers P, Q > 0, by the continued fraction
\* of sqrt(5): P' - Q' * sqrt(5) = -(2 + sqrt(5)) * (P - Q * sqrt(5))
RECURSIVE CmpSqrt5(_, _)
CmpSqrt5(P, Q) ==
    IF P <= 2 * Q THEN -1
    ELSE IF 2 * P >= 5 * Q THEN 1
    ELSE -CmpSqrt5(5 * Q - 2 * P, P - 2 * Q)

SgnInt(x) == IF x > 0 THEN 1 ELSE IF x < 0 THEN -1 ELSE 0

\* sign of P + Q * sqrt(5)
SignSqrt5(P, Q) ==
    IF Q = 0 THEN SgnInt(P)
    ELSE IF P = 0 THEN SgnInt(Q)
    ELSE IF SgnInt(P) = SgnInt(Q) THEN SgnInt(P)
    ELSE IF P > 0 THEN CmpSqrt5(P, -Q)
    ELSE -CmpSqrt5(-P, Q)

\* p + q * gr = ((2p - q) + q * sqrt(5)) / 2
Sign(x)    == SignSqrt5(2 * x.p - x.q, x.q)
Less(x, y) == Sign(Sub(x, y)) < 0
Leq(x, y)  == Sign(Sub(x, y)) <= 0
Abs(x)     == IF Sign(x) < 0 THEN Neg(x) ELSE x

\* ------------------------------------------------------------------------
\* Bounds and inputs
\* ------------------------------------------------------------------------

MaxCoord == 6
MaxIter  == 6

\* integer samples with nonzero variance; the last one is the documented scenario
Samples ==
    { <<1, 2, 3>>, <<0, 4>>, <<1, 2>>, <<0, 0, 1>>,
      <<2, 4, 4, 4, 5, 5, 7, 9>> }

\* mu_init, a and b
Coords == { FromInt(k) : k \in 0..MaxCoord }

\* tol
Tols == { Rat(1, 4), One }

None == "None"

\* ------------------------------------------------------------------------
\* numpy reductions over the sample
\* ------------------------------------------------------------------------

RECURSIVE SumInt(_)
SumInt(s) == IF s = <<>> THEN 0 ELSE Head(s) + SumInt(Tail(s))

\* np.sum(data - mu)
RECURSIVE SumDiff(_, _)
SumDiff(s, mu) ==
    IF s = <<>> THEN Zero ELSE Add(Sub(FromInt(Head(s)), mu), SumDiff(Tail(s), mu))

\* np.sum((data - mu)**2)
RECURSIVE SumSq(_, _)
SumSq(s, mu) ==
    IF s = <<>> THEN Zero
    ELSE LET e == Sub(FromInt(Head(s)), mu) IN Add(Mul(e, e), SumSq(Tail(s), mu))

\* np.mean(data)
Mean(s) == Rat(SumInt(s), Len(s))

\* np.std(data)**2
Sigma2(s) == Div(SumSq(s, Mean(s)), FromInt(Len(s)))

\* ------------------------------------------------------------------------
\* log_likelihood
\* ------------------------------------------------------------------------

\* -n/2 * ln(2 pi sigma^2) - (1 / (2 sigma^2)) * sum((data - mu)^2)
log_likelihood(mu, sigma2, s) ==
    [ logterm |-> <<Len(s), sigma2>>,
      quad    |-> Neg(Mul(Div(One, Mul(Two, sigma2)), SumSq(s, mu))) ]

\* ll1 < ll2 for two log-likelihoods with the same logarithmic term
LLLess(ll1, ll2) == Less(ll1.quad, ll2.quad)


\* ------------------------------------------------------------------------
\* State: the arguments of one call and the locals of the function called
\* ------------------------------------------------------------------------

VARIABLES
    fn,        \* "newton" | "bisection" | "golden"
    data, tol, max_iter,
    mu_init,   \* newton_mle_mu
    a_in, b_in,\* bisection_mle_mu, golden_section_mle: a and b as passed
    pc,        \* position in the function body
    i,         \* loop variable of `for i in range(max_iter)`
    history,
    mu, mu_new,
    a, b, mid,
    c, d, fc, fd,
    exit,      \* how the loop was left: None | "break" | "exhausted"
    nevals,    \* calls of objective() made so far (golden_section_mle)
    ret        \* the estimate returned, None before the return

args == <<fn, data, tol, max_iter, mu_init, a_in, b_in>>
vars == <<fn, data, tol, max_iter, mu_init, a_in, b_in, pc, i, history,
          mu, mu_new, a, b, mid, c, d, fc, fd, exit, nevals, ret>>

sigma2   == Sigma2(data)
mu_fixed == Mean(data)

\* the record appended to history in iteration i of the loop
\* faulty variant: the record carries i instead of i + 1
HistoryRecordStale(k, est, ll) == <<k, est, ll>>
HistoryRecord(k, est, ll) == <<k + 1, est, ll>>

\* dL/dmu = (1 / sigma^2) * sum(data - mu)
derivative(x) == Mul(Div(One, sigma2), SumDiff(data, x))

\* objective(val) for param = 'mu'
objective(val) == log_likelihood(val, sigma2, data)

\* gr = (sqrt(5) - 1) / 2, with sqrt(5) = 1 + 2 * gr
Sqrt5 == Num(1, 2, 1)
gr    == Div(Sub(Sqrt5, One), Two)

\* for i in range(max_iter): the position after the body of iteration i
LoopNext(k, body) == IF k + 1 < max_iter THEN body ELSE "return"
LoopExit(k)       == IF k + 1 < max_iter THEN None ELSE "exhausted"

Init ==
    /\ fn \in {"newton", "bisection", "golden"}
    /\ data \in Samples
    /\ tol \in Tols
    /\ max_iter \in 1..MaxIter
    /\ IF fn = "newton"
         THEN mu_init \in Coords /\ a_in = None /\ b_in = None
         ELSE mu_init = None /\ a_in \in Coords /\ b_in \in Coords
    /\ pc = (IF fn = "newton" THEN "update"
             ELSE IF fn = "bisection" THEN "check" ELSE "init")
    /\ i = 0
    /\ history = <<>>
    /\ mu = mu_init /\ mu_new = None
    /\ a = a_in /\ b = b_in /\ mid = None
    /\ c = None /\ d = None /\ fc = None /\ fd = None
    /\ exit = None
    /\ nevals = 0
    /\ ret = None

\* ------------------------------------------------------------------------
\* newton_mle_mu
\* ------------------------------------------------------------------------

\* faulty variant: d2 = n / sigma^2, the sign of the second derivative lost
NewtonStepWrongSign(x) ==
    LET d1 == Mul(Div(One, sigma2), SumDiff(data, x))
        d2 == Div(FromInt(Len(data)), sigma2)
    IN  Sub(x, Div(d1, d2))

\* lines 66-68: mu_new = mu - d1 / d2
NewtonStep(x) ==
    LET d1 == Mul(Div(One, sigma2), SumDiff(data, x))
        d2 == Div(FromInt(-Len(data)), sigma2)
    IN  Sub(x, Div(d1, d2))

\* line 73
NewtonStop == Less(Abs(Sub(mu_new, mu)), tol)

\* lines 66-71
NewtonUpdate ==
    /\ fn = "newton" /\ pc = "update"
    /\ mu_new' = NewtonStep(mu)
    /\ history' = Append(history,
                         HistoryRecord(i, mu_new', log_likelihood(mu_new', sigma2, data)))
    /\ pc' = "test"
    /\ UNCHANGED <<args, i, mu, a, b, mid, c, d, fc, fd, exit, nevals, ret>>

\* lines 73-74
NewtonConverged ==
    /\ fn = "newton" /\ pc = "test"
    /\ NewtonStop
    /\ exit' = "break"
    /\ pc' = "return"
    /\ UNCHANGED <<args, i, history, mu, mu_new, a, b, mid, c, d, fc, fd, nevals, ret>>

\* lines 76 and 65
NewtonContinue ==
    /\ fn = "newton" /\ pc = "test"
    /\ ~NewtonStop
    /\ mu' = mu_new
    /\ i' = i + 1
    /\ pc' = LoopNext(i, "update")
    /\ exit' = LoopExit(i)
    /\ UNCHANGED <<args, history, mu_new, a, b, mid, c, d, fc, fd, nevals, ret>>

\* line 78
NewtonReturn ==
    /\ fn = "newton" /\ pc = "return"
    /\ ret' = mu_new
    /\ pc' = "done"
    /\ UNCHANGED <<args, i, history, mu, mu_new, a, b, mid, c, d, fc, fd, exit, nevals>>

\* ------------------------------------------------------------------------
\* bisection_mle_mu
\* ------------------------------------------------------------------------

\* faulty variants of the entry check: >= 0 for > 0; both derivatives positive
BracketInvalidNonStrict == Sign(Mul(derivative(a), derivative(b))) >= 0
BracketInvalidBothPositive == Sign(derivative(a)) > 0 /\ Sign(derivative(b)) > 0

\* line 103: derivative(a) * derivative(b) > 0
BracketInvalid == Sign(Mul(derivative(a), derivative(b))) > 0

\* faulty variant: a + b, the division by 2 lost
MidpointNotHalved(x, y) == Add(x, y)

\* lines 107, 158, 175: (a + b) / 2
Midpoint(x, y) == Div(Add(x, y), Two)

\* line 111
BisectStop ==
    \/ Less(Abs(derivative(mid)), tol)
    \/ Less(Div(Sub(b, a), Two), tol)

\* line 114
BisectTakeLeft == Sign(Mul(derivative(a), derivative(mid))) < 0

\* lines 103-104
BisectRaise ==
    /\ fn = "bisection" /\ pc = "check"
    /\ BracketInvalid
    /\ pc' = "raised"
    /\ UNCHANGED <<args, i, history, mu, mu_new, a, b, mid, c, d, fc, fd, exit, nevals, ret>>

\* line 103, the check passing
BisectEnter ==
    /\ fn = "bisection" /\ pc = "check"
    /\ ~BracketInvalid
    /\ pc' = "record"
    /\ UNCHANGED <<args, i, history, mu, mu_new, a, b, mid, c, d, fc, fd, exit, nevals, ret>>

\* lines 107-109
BisectRecord ==
    /\ fn = "bisection" /\ pc = "record"
    /\ mid' = Midpoint(a, b)
    /\ history' = Append(history,
                         HistoryRecord(i, mid', log_likelihood(mid', sigma2, data)))
    /\ pc' = "test"
    /\ UNCHANGED <<args, i, mu, mu_new, a, b, c, d, fc, fd, exit, nevals, ret>>

\* lines 111-112
BisectConverged ==
    /\ fn = "bisection" /\ pc = "test"
    /\ BisectStop
    /\ exit' = "break"
    /\ pc' = "return"
    /\ UNCHANGED <<args, i, history, mu, mu_new, a, b, mid, c, d, fc, fd, nevals, ret>>

\* lines 114-117 and 106
BisectNarrow ==
    /\ fn = "bisection" /\ pc = "test"
    /\ ~BisectStop
    /\ IF BisectTakeLeft
         THEN b' = mid /\ a' = a
         ELSE a' = mid /\ b' = b
    /\ i' = i + 1
    /\ pc' = LoopNext(i, "record")
    /\ exit' = LoopExit(i)
    /\ UNCHANGED <<args, history, mu, mu_new, mid, c, d, fc, fd, nevals, ret>>

\* line 119
BisectReturn ==
    /\ fn = "bisection" /\ pc = "return"
    /\ ret' = mid
    /\ pc' = "done"
    /\ UNCHANGED <<args, i, history, mu, mu_new, a, b, mid, c, d, fc, fd, exit, nevals>>

\* ------------------------------------------------------------------------
\* golden_section_mle (param = 'mu')
\* ------------------------------------------------------------------------

\* lines 153, 172: c = b - gr * (b - a)
InteriorC(x, y) == Sub(y, Mul(gr, Sub(y, x)))
\* lines 154, 167: d = a + gr * (b - a)
InteriorD(x, y) == Add(x, Mul(gr, Sub(y, x)))

\* line 161
GoldenStop == Less(Abs(Sub(b, a)), tol)

\* faulty variant: fc > fd
GoldenTakeLeftReversed == LLLess(fd, fc)

\* line 164: fc < fd
GoldenTakeLeft == LLLess(fc, fd)

\* faulty variant: c = d without fc = fd
DiscardLeftStaleCache ==
    LET a1 == c
        c1 == d
        d1 == InteriorD(a1, b)
    IN  [a |-> a1, b |-> b, c |-> c1, d |-> d1, fc |-> fc, fd |-> objective(d1)]

\* lines 165-168
DiscardLeft ==
    LET a1 == c
        c1 == d
        d1 == InteriorD(a1, b)
    IN  [a |-> a1, b |-> b, c |-> c1, d |-> d1, fc |-> fd, fd |-> objective(d1)]

\* lines 170-173
DiscardRight ==
    LET b1 == d
        d1 == c
        c1 == InteriorC(a, b1)
    IN  [a |-> a, b |-> b1, c |-> c1, d |-> d1, fc |-> objective(c1), fd |-> fc]

\* faulty variant: returns a
GoldenResultLeftEnd == a

\* line 175
GoldenResult == Midpoint(a, b)

\* lines 153-155
GoldenInit ==
    /\ fn = "golden" /\ pc = "init"
    /\ c' = InteriorC(a, b)
    /\ d' = InteriorD(a, b)
    /\ fc' = objective(c')
    /\ fd' = objective(d')
    /\ nevals' = nevals + 2
    /\ pc' = "record"
    /\ UNCHANGED <<args, i, history, mu, mu_new, a, b, mid, exit, ret>>

\* lines 158-159
GoldenRecord ==
    /\ fn = "golden" /\ pc = "record"
    /\ mid' = Midpoint(a, b)
    /\ history' = Append(history, HistoryRecord(i, mid', objective(mid')))
    /\ nevals' = nevals + 1
    /\ pc' = "test"
    /\ UNCHANGED <<args, i, mu, mu_new, a, b, c, d, fc, fd, exit, ret>>

\* lines 161-162
GoldenConverged ==
    /\ fn = "golden" /\ pc = "test"
    /\ GoldenStop
    /\ exit' = "break"
    /\ pc' = "return"
    /\ UNCHANGED <<args, i, history, mu, mu_new, a, b, mid, c, d, fc, fd, nevals, ret>>

GoldenAssign(n) ==
    /\ a' = n.a /\ b' = n.b /\ c' = n.c /\ d' = n.d /\ fc' = n.fc /\ fd' = n.fd
    /\ nevals' = nevals + 1
    /\ i' = i + 1
    /\ pc' = LoopNext(i, "record")
    /\ exit' = LoopExit(i)
    /\ UNCHANGED <<args, history, mu, mu_new, mid, ret>>

\* lines 164-168 and 157
GoldenDiscardLeft ==
    /\ fn = "golden" /\ pc = "test"
    /\ ~GoldenStop
    /\ GoldenTakeLeft
    /\ GoldenAssign(DiscardLeft)

\* lines 169-173 and 157
GoldenDiscardRight ==
    /\ fn = "golden" /\ pc = "test"
    /\ ~GoldenStop
    /\ ~GoldenTakeLeft
    /\ GoldenAssign(DiscardRight)

\* line 175
GoldenReturn ==
    /\ fn = "golden" /\ pc = "return"
    /\ ret' = GoldenResult
    /\ pc' = "done"
    /\ UNCHANGED <<args, i, history, mu, mu_new, a, b, mid, c, d, fc, fd, exit, nevals>>

Next ==
    \/ NewtonUpdate \/ NewtonConverged \/ NewtonContinue \/ NewtonReturn
    \/ BisectRaise \/ BisectEnter \/ BisectRecord \/ BisectConverged
    \/ BisectNarrow \/ BisectReturn
    \/ GoldenInit \/ GoldenRecord \/ GoldenConverged
    \/ GoldenDiscardLeft \/ GoldenDiscardRight \/ GoldenReturn

Spec == Init /\ [][Next]_vars

\* ------------------------------------------------------------------------
\* Properties
\* ------------------------------------------------------------------------

\* the parameter estimate of the k-th history record
Estimate(k) == history[k][2]
LastEstimate == Estimate(Len(history))

\* |x - np.mean(data)| < tol
WithinTol(x) == Less(Abs(Sub(x, mu_fixed)), tol)

\* a < b and a <= mean <= b for the bracket as passed
ValidBracket ==
    /\ Less(a_in, b_in)
    /\ Leq(a_in, mu_fixed)
    /\ Leq(mu_fixed, b_in)

\* C1 as stated: whenever newton_mle_mu returns, its history has exactly one
\* record and the estimate returned is within tol of the sample mean.
C1_NewtonOneIteration ==
    (fn = "newton" /\ pc = "done")
        => (Len(history) = 1 /\ WithinTol(ret))

\* C1 as amended: the first Newton update lands on the sample mean, and the
\* estimate returned is within tol of it, but the loop only stops in its first
\* iteration when max_iter = 1 or |mean - mu_init| < tol; otherwise it stops
\* in the second, so the history has length 1 in those cases and 2 otherwise.
C1_NewtonAtMostTwoIterations ==
    fn = "newton" =>
        /\ Len(history) >= 1 => Estimate(1) = mu_fixed
        /\ pc = "done" =>
            /\ WithinTol(ret)
            /\ Len(history) = (IF max_iter = 1 \/ WithinTol(mu_init) THEN 1 ELSE 2)

C1_Witness ==
    fn = "newton" /\ pc = "done" /\ Len(history) = 2 /\ ret = mu_fixed

\* C2: when bisection_mle_mu is given a bracket a < b with a <= mean <= b and
\* its loop stops on its own convergence test, the estimate returned is within
\* tol of the sample mean.
C2_BisectionReachesMean ==
    (fn = "bisection" /\ pc = "done" /\ exit = "break" /\ ValidBracket)
        => WithinTol(ret)

\* C3: when golden_section_mle is given a bracket a < b with a <= mean <= b,
\* the sample mean stays inside [a, b] in every state, and when the loop stops
\* on its convergence test the estimate returned is within tol of the mean.
C3_GoldenKeepsMeanBracketed ==
    (fn = "golden" /\ ValidBracket) =>
        /\ Leq(a, mu_fixed) /\ Leq(mu_fixed, b)
        /\ (pc = "done" /\ exit = "break") => WithinTol(ret)

\* a converged run whose first narrowing step met the tie fc = fd
C3_Witness ==
    /\ fn = "golden" /\ ValidBracket
    /\ mu_fixed = Midpoint(a_in, b_in)
    /\ pc = "done" /\ exit = "break" /\ i >= 2

\* C4: when d(a) * d(b) > 0 for the endpoints passed, bisection_mle_mu raises
\* at its entry check: no loop iteration runs, no history record is created
\* and nothing is returned.
C4_InvalidBracketRaises ==
    (fn = "bisection" /\ Sign(Mul(derivative(a_in), derivative(b_in))) > 0) =>
        /\ pc \in {"check", "raised"}
        /\ i = 0 /\ history = <<>> /\ mid = None /\ ret = None

C4_Witness ==
    /\ fn = "bisection" /\ pc = "raised"
    /\ Sign(derivative(a_in)) < 0 /\ Sign(derivative(b_in)) < 0

\* C5: in every state the k-th history record carries iteration index k and
\* there is one record per loop iteration entered; every step leaves the
\* history alone or appends one record to it; on return the history holds at
\* least 1 and at most max_iter records.
C5_HistoryOnePerIteration ==
    /\ [](/\ \A k \in 1..Len(history) : history[k][1] = k
          /\ Len(history) <= max_iter
          /\ pc \in {"update", "record"} => Len(history) = i
          /\ pc = "test" => Len(history) = i + 1
          /\ pc = "done" => Len(history) >= 1)
    /\ [][\/ history' = history
          \/ /\ Len(history') = Len(history) + 1
             /\ SubSeq(history', 1, Len(history)) = history]_vars

C5_Witness ==
    pc = "done" /\ Len(history) = max_iter /\ max_iter >= 3

\* C6: when d(a) = 0 or d(b) = 0 for the endpoints passed, bisection_mle_mu
\* does not raise, and by the time its first convergence test is evaluated the
\* midpoint (a + b) / 2 has been recorded as history record 1.
C6_ZeroDerivativeEndpointProceeds ==
    (/\ fn = "bisection"
     /\ Sign(derivative(a_in)) = 0 \/ Sign(derivative(b_in)) = 0) =>
        /\ pc # "raised"
        /\ (pc = "record" /\ i = 0) => (history = <<>> /\ exit = None)
        /\ (pc \in {"test", "return", "done"} \/ i > 0) =>
            /\ Len(history) >= 1
            /\ history[1][1] = 1
            /\ Estimate(1) = Div(Add(a_in, b_in), Two)

C6_Witness ==
    /\ fn = "bisection" /\ Sign(derivative(a_in)) = 0
    /\ pc = "test" /\ i = 0 /\ Len(history) = 1

\* C7: when bisection_mle_mu or golden_section_mle is entered with a <= b,
\* a <= b holds in every state of the call.
C7_LowLeqHigh ==
    (fn \in {"bisection", "golden"} /\ Leq(a_in, b_in)) => Leq(a, b)

C7_Witness ==
    /\ fn = "bisection" /\ pc = "done"
    /\ Less(a_in, a) /\ Less(b, b_in) /\ Less(a, b)

\* C8: in golden_section_mle, at the start of every loop iteration fc is the
\* objective at c and fd the objective at d; a narrowing step with fc < fd
\* sets a = c and moves d and its cached value into c, any other narrowing
\* step sets b = d and moves c and its cached value into d, and either
\* calls the objective exactly once.
C8_GoldenCacheCoherent ==
    /\ []((fn = "golden" /\ pc \in {"record", "test"})
            => (fc = objective(c) /\ fd = objective(d)))
    /\ [][(fn = "golden" /\ pc = "test" /\ i' = i + 1) =>
            /\ nevals' = nevals + 1
            /\ IF Less(fc.quad, fd.quad)
                 THEN a' = c /\ b' = b /\ c' = d /\ fc' = fd
                 ELSE b' = d /\ a' = a /\ d' = c /\ fd' = fc]_vars

C8_Witness ==
    /\ fn = "golden" /\ pc = "record" /\ i >= 3
    /\ a # a_in /\ b # b_in

\* C9: once the entry check of bisection_mle_mu has passed, d(a) * d(b) <= 0
\* holds at the start of every loop iteration and after every narrowing step.
C9_RootStaysBracketed ==
    (fn = "bisection" /\ pc \in {"record", "test", "return", "done"})
        => Sign(Mul(derivative(a), derivative(b))) <= 0

\* C10 as stated: whenever a call returns, the estimate returned is the
\* estimate of the last history record.
C10_ReturnIsLastRecord ==
    pc = "done" => ret = LastEstimate

\* C10 as amended: the estimate returned is the estimate of the last history
\* record for newton_mle_mu, for bisection_mle_mu, and for golden_section_mle
\* when its loop stops on the convergence test; when golden_section_mle
\* exhausts max_iter it returns the midpoint of the bracket as narrowed by the
\* last iteration, which is not the last record's estimate.
C10_ReturnVsLastRecord ==
    pc = "done" =>
        /\ (fn \in {"newton", "bisection"} \/ exit = "break") => ret = LastEstimate
        /\ (fn = "golden" /\ exit = "exhausted") =>
            /\ ret = Div(Add(a, b), Two)
            /\ ret # LastEstimate

C10_Witness ==
    fn = "golden" /\ pc = "done" /\ exit = "exhausted" /\ Len(history) >= 2

=============================================================================
